---- MODULE Spec2Model ----
(***************************************************************************)
(* Explaina (src/app.py): a Streamlit script that is re-executed from top  *)
(* to bottom after every user interaction.  The only state that survives   *)
(* a run is st.session_state.history and the widget state (the uploaded    *)
(* file and the three select boxes).  One ScriptRun step is one execution  *)
(* of the whole script.                                                    *)
(*                                                                         *)
(* Numbers are exact: a mean, a standard deviation and a correlation are   *)
(* compared as rationals (cross-multiplied), not as float64 values.        *)
(***************************************************************************)
EXTENDS Integers, Sequences, FiniteSets, TLC

VARIABLES
    history,         \* st.session_state.history
    history_before,  \* st.session_state.history as the last run found it
    uploaded_file,   \* value of the sidebar file_uploader
    chart_type,      \* value of the "Choose Chart Type" selectbox
    col1,            \* value of the "Select X-axis" selectbox
    col2,            \* value of the "Select Y-axis" selectbox
    pc,              \* "rerun": the script is about to run; "idle": it has run
    exception,       \* the exception that ended the run, "none" if it completed
    messages,        \* the success / warning / info boxes the run rendered
    chart,           \* the chart the run rendered in the Visualizations tab
    corr,            \* the value bound to `corr` (line 95)
    caption,         \* the caption rendered under the scatter plot
    insights,        \* the list `insights` of the Insights tab
    report,          \* the download button: file_name and report text
    panel            \* the "Previous Sessions" sidebar panel

vars == <<history, history_before, uploaded_file, chart_type, col1, col2, pc,
          exception, messages, chart, corr, caption, insights, report, panel>>

widgets == <<uploaded_file, chart_type, col1, col2>>
outputs == <<exception, messages, chart, corr, caption, insights, report, panel>>

----------------------------------------------------------------------------
(* Bounds of the model *)

NumFiles == 6      \* distinct file names a session can upload
NumVariants == 1   \* how many of those names also exist with other content
MaxCells == 4      \* cells (rows times columns) of an analysed table
CorrScale == 100   \* correlations k / CorrScale, k in -CorrScale..CorrScale

(* Constants of the program *)

HistoryLimit == 5               \* len(history) > 5
HighMean == 1000                \* mean > 1000
StrongThreshold == <<7, 10>>    \* abs(corr) > 0.7
ModerateThreshold == <<4, 10>>  \* abs(corr) > 0.4
WeakThreshold == <<2, 10>>      \* abs(corr) > 0.2

ChartTypes == {"Scatter Plot", "Histogram", "Box Plot", "Pair Plot"}
PairPlotCols == 4               \* numeric_cols[:4]

----------------------------------------------------------------------------
(* Generic helpers *)

Abs(x) == IF x < 0 THEN -x ELSE x

Min(a, b) == IF a < b THEN a ELSE b

RECURSIVE SumSeq(_)
SumSeq(s) == IF s = <<>> THEN 0 ELSE Head(s) + SumSeq(Tail(s))

\* a / b > c / d for a, c >= 0 and b, d > 0, by comparing the continued
\* fractions (no product is formed, so nothing leaves the 32-bit range)
RECURSIVE GtFrac(_, _, _, _)
GtFrac(a, b, c, d) ==
    LET qa == a \div b
        qc == c \div d
        ra == a % b
        rc == c % d
    IN  IF qa # qc THEN qa > qc
        ELSE IF ra = 0 THEN FALSE
        ELSE IF rc = 0 THEN TRUE
        ELSE GtFrac(d, rc, b, ra)

----------------------------------------------------------------------------
(* Cells, columns and data frames *)

Null == [kind |-> "null", v |-> 0]
Str == [kind |-> "str", v |-> 0]
Num(n) == [kind |-> "num", v |-> n]

ColumnNames == <<"a", "b", "c", "d", "e", "f">>

\* dtype inference of pd.read_csv for one column of parsed cells
InferDtype(cells) ==
    IF \E i \in 1..Len(cells) : cells[i].kind = "str" THEN "object"
    ELSE IF cells = <<>> THEN "object"
    ELSE IF \E i \in 1..Len(cells) : cells[i].kind = "null" THEN "float64"
    ELSE "int64"

\* pd.read_csv(uploaded_file): the data frame, a sequence of columns
ReadCsv(file) ==
    [i \in 1..Len(file.columns) |->
        [name |-> ColumnNames[i],
         dtype |-> InferDtype(file.columns[i]),
         cells |-> file.columns[i]]]

\* df.shape
Shape(df) == <<IF df = <<>> THEN 0 ELSE Len(df[1].cells), Len(df)>>

\* df.columns.tolist()
Columns(df) == [i \in 1..Len(df) |-> df[i].name]

NullCount(cells) == Cardinality({i \in 1..Len(cells) : cells[i].kind = "null"})

\* df.isnull().sum(): null count per column, in column order
IsNullSum(df) == [i \in 1..Len(df) |-> [col |-> df[i].name, val |-> NullCount(df[i].cells)]]

\* df.select_dtypes(include=np.number).columns.tolist()
NumericCols(df) ==
    LET idx == SelectSeq([i \in 1..Len(df) |-> i],
                         LAMBDA i : df[i].dtype \in {"int64", "float64"})
    IN  [k \in 1..Len(idx) |-> df[idx[k]].name]

ColumnOf(df, name) == df[CHOOSE i \in 1..Len(df) : df[i].name = name]

----------------------------------------------------------------------------
(* Session history (lines 44-61) and its sidebar panel (lines 178-190) *)

HistoryEntry(name, df) ==
    [filename |-> name,
     shape |-> Shape(df),
     columns |-> Columns(df),
     nulls |-> IsNullSum(df)]

Filenames(h) == {h[i].filename : i \in 1..Len(h)}

\* SaveToHistory, had the `if len(...) > 5: pop()` been left out
SaveToHistoryNoPop(h, name, df) ==
    IF name \notin Filenames(h) THEN <<HistoryEntry(name, df)>> \o h ELSE h

\* SaveToHistory, had it been `pop(0)`
SaveToHistoryPopFirst(h, name, df) ==
    IF name \notin Filenames(h)
    THEN LET inserted == <<HistoryEntry(name, df)>> \o h
         IN  IF Len(inserted) > HistoryLimit THEN Tail(inserted) ELSE inserted
    ELSE h

\* SaveToHistory, had the `not in` test been left out
SaveToHistoryAlways(h, name, df) ==
    LET inserted == <<HistoryEntry(name, df)>> \o h
    IN  IF Len(inserted) > HistoryLimit
        THEN SubSeq(inserted, 1, Len(inserted) - 1)
        ELSE inserted

\* `if uploaded_file.name not in [...]: history.insert(0, ...); if len > 5: pop()`
SaveToHistory(h, name, df) ==
    IF name \notin Filenames(h)
    THEN LET inserted == <<HistoryEntry(name, df)>> \o h
         IN  IF Len(inserted) > HistoryLimit
             THEN SubSeq(inserted, 1, Len(inserted) - 1)
             ELSE inserted
    ELSE h

NoPanel == [rendered |-> FALSE, expanders |-> <<>>, note |-> "-"]

\* one expander per entry, in list order; nulls filtered to the non-zero ones
HistoryPanel(h) ==
    IF h # <<>>
    THEN [rendered |-> TRUE,
          expanders |->
              [i \in 1..Len(h) |->
                  [filename |-> h[i].filename,
                   shape |-> h[i].shape,
                   columns |-> h[i].columns,
                   nulls |-> SelectSeq(h[i].nulls, LAMBDA e : e.val > 0)]],
          note |-> "-"]
    ELSE [rendered |-> TRUE, expanders |-> <<>>, note |-> "No past session stored."]

----------------------------------------------------------------------------
(* Correlation and the auto caption (lines 95-105) *)

NoCorr == [kind |-> "unset", sxy |-> 0, sxx |-> 0, syy |-> 0]
NaN == [kind |-> "nan", sxy |-> 0, sxx |-> 0, syy |-> 0]

\* rows where both columns hold a number (pandas drops the other pairs)
PairedRows(x, y) ==
    SelectSeq([i \in 1..Len(x) |-> i],
              LAMBDA i : x[i].kind = "num" /\ y[i].kind = "num")

\* df[[col1, col2]].corr().iloc[0, 1]: Pearson's r = sxy / sqrt(sxx * syy),
\* kept as the three integers; NaN without a pair or with a zero divisor
Corr(df, c1, c2) ==
    LET x == ColumnOf(df, c1).cells
        y == ColumnOf(df, c2).cells
        rows == PairedRows(x, y)
        n == Len(rows)
        xs == [k \in 1..n |-> x[rows[k]].v]
        ys == [k \in 1..n |-> y[rows[k]].v]
        sx == SumSeq(xs)
        sy == SumSeq(ys)
        sxy == n * SumSeq([k \in 1..n |-> xs[k] * ys[k]]) - sx * sy
        sxx == n * SumSeq([k \in 1..n |-> xs[k] * xs[k]]) - sx * sx
        syy == n * SumSeq([k \in 1..n |-> ys[k] * ys[k]]) - sy * sy
    IN  IF n = 0 \/ sxx = 0 \/ syy = 0 THEN NaN
        ELSE [kind |-> "num", sxy |-> sxy, sxx |-> sxx, syy |-> syy]

\* AbsGt, had the comparisons been `>=`
AbsGe(c, t) ==
    /\ c.kind = "num"
    /\ c.sxy # 0
    /\ ~GtFrac(t[1] * c.syy, t[2] * Abs(c.sxy), t[2] * Abs(c.sxy), t[1] * c.sxx)

\* abs(corr) > t[1] / t[2]; False for NaN
AbsGt(c, t) ==
    /\ c.kind = "num"
    /\ c.sxy # 0
    /\ GtFrac(t[2] * Abs(c.sxy), t[1] * c.sxx, t[1] * c.syy, t[2] * Abs(c.sxy))

Strength(c) ==
    IF AbsGt(c, StrongThreshold) THEN "strong"
    ELSE IF AbsGt(c, ModerateThreshold) THEN "moderate"
    ELSE IF AbsGt(c, WeakThreshold) THEN "weak"
    ELSE "very weak or no"

\* "positive" if corr > 0 else "negative" if corr < 0 else "no"
Direction(c) ==
    IF c.kind = "num" /\ c.sxy > 0 THEN "positive"
    ELSE IF c.kind = "num" /\ c.sxy < 0 THEN "negative"
    ELSE "no"

NoCaption == [shown |-> FALSE, strength |-> "-", direction |-> "-", x |-> "-", y |-> "-"]

Caption(c, c1, c2) ==
    [shown |-> TRUE, strength |-> Strength(c), direction |-> Direction(c),
     x |-> c1, y |-> c2]

----------------------------------------------------------------------------
(* Visualizations tab (lines 78-124) *)

NoChart == [kind |-> "none", x |-> "-", y |-> "-", cols |-> <<>>]

\* Tab2, had the test been `len(numeric_cols) >= 1`
Tab2AtLeastOne(df, ct, c1, c2) ==
    LET numeric_cols == NumericCols(df) IN
    IF Len(numeric_cols) >= 1
    THEN [messages |-> {},
          chart |-> [kind |-> "Pair Plot", x |-> "-", y |-> "-", cols |-> numeric_cols],
          corr |-> NoCorr, caption |-> NoCaption]
    ELSE [messages |-> {"not_enough_numeric_columns"},
          chart |-> NoChart, corr |-> NoCorr, caption |-> NoCaption]

Tab2(df, ct, c1, c2) ==
    LET numeric_cols == NumericCols(df) IN
    IF Len(numeric_cols) >= 2
    THEN IF ct = "Scatter Plot"
         THEN [messages |-> {},
               chart |-> [kind |-> ct, x |-> c1, y |-> c2, cols |-> <<>>],
               corr |-> Corr(df, c1, c2),
               caption |-> Caption(Corr(df, c1, c2), c1, c2)]
         ELSE IF ct \in {"Histogram", "Box Plot"}
         THEN [messages |-> {},
               chart |-> [kind |-> ct, x |-> c1, y |-> "-", cols |-> <<>>],
               corr |-> NoCorr, caption |-> NoCaption]
         ELSE [messages |-> {},
               chart |-> [kind |-> ct, x |-> "-", y |-> "-",
                          cols |-> SubSeq(numeric_cols, 1,
                                          Min(PairPlotCols, Len(numeric_cols)))],
               corr |-> NoCorr, caption |-> NoCaption]
    ELSE [messages |-> {"not_enough_numeric_columns"},
          chart |-> NoChart, corr |-> NoCorr, caption |-> NoCaption]

----------------------------------------------------------------------------
(* Insights tab: insight list (lines 130-144), report (lines 146-173) *)

Numbers(cells) ==
    LET nn == SelectSeq(cells, LAMBDA c : c.kind = "num")
    IN  [i \in 1..Len(nn) |-> nn[i].v]

\* mean > t, mean = sum / n over the non-null values; False for NaN (n = 0)
MeanGt(cells, t) ==
    LET xs == Numbers(cells) IN
    Len(xs) > 0 /\ SumSeq(xs) > t * Len(xs)

\* std > mean, std the sample standard deviation (ddof = 1): NaN, hence False,
\* with fewer than 2 values; std^2 = (n*q - s^2) / (n*(n-1)), mean = s / n
StdGtMean(cells) ==
    LET xs == Numbers(cells)
        n == Len(xs)
        s == SumSeq(xs)
        q == SumSeq([i \in 1..n |-> xs[i] * xs[i]])
    IN  n >= 2 /\ (s < 0 \/ n * (n * q - s * s) > (n - 1) * s * s)

\* ColumnInsights, had the second test been an `elif`
ColumnInsightsElif(col) ==
    IF col.dtype \in {"int64", "float64"}
    THEN IF MeanGt(col.cells, HighMean)
         THEN <<[kind |-> "high_average", col |-> col.name]>>
         ELSE IF StdGtMean(col.cells)
         THEN <<[kind |-> "high_variability", col |-> col.name]>>
         ELSE <<>>
    ELSE <<>>

ColumnInsights(col) ==
    IF col.dtype \in {"int64", "float64"}
    THEN (IF MeanGt(col.cells, HighMean)
          THEN <<[kind |-> "high_average", col |-> col.name]>> ELSE <<>>)
         \o
         (IF StdGtMean(col.cells)
          THEN <<[kind |-> "high_variability", col |-> col.name]>> ELSE <<>>)
    ELSE <<>>

RECURSIVE InsightsFrom(_, _)
InsightsFrom(df, i) ==
    IF i > Len(df) THEN <<>>
    ELSE ColumnInsights(df[i]) \o InsightsFrom(df, i + 1)

\* the loop `for col in df.columns`
GenerateInsights(df) == InsightsFrom(df, 1)

\* str.split(sep): the pieces of s between the separators
RECURSIVE Split(_, _)
Split(s, sep) ==
    IF \A i \in 1..Len(s) : s[i] # sep THEN <<s>>
    ELSE LET k == CHOOSE i \in 1..Len(s) :
                      s[i] = sep /\ \A j \in 1..(i - 1) : s[j] # sep
         IN  <<SubSeq(s, 1, k - 1)>> \o Split(SubSeq(s, k + 1, Len(s)), sep)

ReportSuffix == <<"_", "r", "e", "p", "o", "r", "t", ".", "t", "x", "t">>

\* f"{uploaded_file.name.split('.')[0]}_report.txt"
ReportFileName(name) == Split(name, ".")[1] \o ReportSuffix

NoReport ==
    [offered |-> FALSE, file_name |-> <<>>, filename |-> <<>>, shape |-> <<0, 0>>,
     columns |-> <<>>, nulls |-> <<>>, insights |-> <<>>, none_found |-> FALSE]

Tab3(df, name) ==
    LET ins == GenerateInsights(df) IN
    [insights |-> ins,
     messages |-> IF ins # <<>> THEN {} ELSE {"no_strong_insights"},
     report |-> [offered |-> TRUE,
                 file_name |-> ReportFileName(name),
                 filename |-> name,
                 shape |-> Shape(df),
                 columns |-> Columns(df),
                 nulls |-> IsNullSum(df),
                 insights |-> ins,
                 none_found |-> (ins = <<>>)]]

----------------------------------------------------------------------------
(* Inputs: files the user can upload and widget values the user can pick *)

Csv == <<".", "c", "s", "v">>

\* every name passes the uploader's type=["csv"] filter
FileNamePool ==
    << <<"a">> \o Csv, <<"b">> \o Csv, <<"a", ".", "b">> \o Csv, <<"c">> \o Csv,
       <<"d">> \o Csv, <<"e">> \o Csv, <<"f">> \o Csv, <<"g">> \o Csv >>

NoFile == [present |-> FALSE, name |-> <<>>, ok |-> FALSE, columns |-> <<>>]

File(name, columns) == [present |-> TRUE, name |-> name, ok |-> TRUE, columns |-> columns]

\* a file pd.read_csv cannot parse
Malformed(name) == [present |-> TRUE, name |-> name, ok |-> FALSE, columns |-> <<>>]

Cells == {Null, Str, Num(-1), Num(3000)}

\* the tables of r rows and c >= 1 columns with at most MaxCells cells
AnalysisShapes == {rc \in (0..MaxCells) \X (1..MaxCells) : rc[1] * rc[2] <= MaxCells}

AnalysisFiles ==
    {File(FileNamePool[1], cols) :
        cols \in UNION {[1..rc[2] -> [1..rc[1] -> Cells]] : rc \in AnalysisShapes}}

ContentA == << <<Num(3000), Null>>, <<Str, Str>> >>
ContentB == << <<Str>> >>

\* the files of a session: every name with one content, the first
\* NumVariants names also with another content and as an unparsable file
SessionFiles ==
    {File(FileNamePool[i], ContentA) : i \in 1..NumFiles}
    \cup {File(FileNamePool[i], ContentB) : i \in 1..NumVariants}
    \cup {Malformed(FileNamePool[i]) : i \in 1..NumVariants}

NoWidgets == [chart_type |-> "-", col1 |-> "-", col2 |-> "-"]

\* the select boxes exist only when the file parses into a data frame with
\* at least 2 numeric columns (line 82); they offer numeric_cols
WidgetChoices(file) ==
    IF file.present /\ file.ok /\ Len(NumericCols(ReadCsv(file))) >= 2
    THEN LET numeric_cols == NumericCols(ReadCsv(file))
             options == {numeric_cols[i] : i \in 1..Len(numeric_cols)}
         IN  [chart_type : ChartTypes, col1 : options, col2 : options]
    ELSE {NoWidgets}

\* correlations k / CorrScale, and NaN
CorrValues ==
    {NaN} \cup {[kind |-> "num", sxy |-> k, sxx |-> CorrScale, syy |-> CorrScale] :
                    k \in (-CorrScale)..CorrScale}

----------------------------------------------------------------------------
(* The script *)

Blank ==
    /\ exception = "none"
    /\ messages = {}
    /\ chart = NoChart
    /\ corr = NoCorr
    /\ caption = NoCaption
    /\ insights = <<>>
    /\ report = NoReport
    /\ panel = NoPanel

\* one execution of app.py, top to bottom, on the current widget state
ScriptRun ==
    /\ pc = "rerun"
    /\ pc' = "idle"
    /\ UNCHANGED <<widgets, history_before>>
    /\ IF uploaded_file.present
       THEN IF ~uploaded_file.ok
            THEN \* pd.read_csv raises at line 50; nothing catches it
                 /\ exception' = "read_csv"
                 /\ UNCHANGED <<history, messages, chart, corr, caption,
                                insights, report, panel>>
            ELSE LET df == ReadCsv(uploaded_file)
                     tab2 == Tab2(df, chart_type, col1, col2)
                     tab3 == Tab3(df, uploaded_file.name)
                 IN  /\ history' = SaveToHistory(history, uploaded_file.name, df)
                     /\ exception' = "none"
                     /\ messages' = {"upload_successful"} \cup tab2.messages
                                        \cup tab3.messages
                     /\ chart' = tab2.chart
                     /\ corr' = tab2.corr
                     /\ caption' = tab2.caption
                     /\ insights' = tab3.insights
                     /\ report' = tab3.report
                     /\ panel' = HistoryPanel(history')
       ELSE /\ messages' = {"please_upload"}
            /\ panel' = HistoryPanel(history)
            /\ UNCHANGED <<history, exception, chart, corr, caption, insights, report>>

\* the user uploads, replaces or removes the file, or picks widget values;
\* Streamlit then starts a run on a blank page
Interact ==
    /\ pc = "idle"
    /\ pc' = "rerun"
    /\ \E f \in SessionFiles \cup {NoFile} :
        \E w \in WidgetChoices(f) :
            /\ uploaded_file' = f
            /\ chart_type' = w.chart_type
            /\ col1' = w.col1
            /\ col2' = w.col2
    /\ history_before' = history
    /\ exception' = "none"
    /\ messages' = {}
    /\ chart' = NoChart
    /\ corr' = NoCorr
    /\ caption' = NoCaption
    /\ insights' = <<>>
    /\ report' = NoReport
    /\ panel' = NoPanel
    /\ UNCHANGED history

\* lines 96-105 on the value of `corr`
AutoCaption ==
    /\ pc = "caption"
    /\ pc' = "idle"
    /\ caption' = Caption(corr, col1, col2)
    /\ UNCHANGED <<history, history_before, widgets, exception, messages, chart,
                   corr, insights, report, panel>>

----------------------------------------------------------------------------
(* Specifications *)

\* a session: a new session starts with a run without a file
Init ==
    /\ history = <<>>
    /\ history_before = <<>>
    /\ uploaded_file = NoFile
    /\ chart_type = "-" /\ col1 = "-" /\ col2 = "-"
    /\ pc = "rerun"
    /\ Blank

Next == Interact \/ ScriptRun

Spec == Init /\ [][Next]_vars

\* one run of the script in a new session, on any table and widget values
InitAnalysis ==
    /\ history = <<>>
    /\ history_before = <<>>
    /\ uploaded_file \in AnalysisFiles
    /\ \E w \in WidgetChoices(uploaded_file) :
        chart_type = w.chart_type /\ col1 = w.col1 /\ col2 = w.col2
    /\ pc = "rerun"
    /\ Blank

NextAnalysis == ScriptRun

SpecAnalysis == InitAnalysis /\ [][NextAnalysis]_vars

\* the caption logic on any correlation value
InitCaption ==
    /\ history = <<>>
    /\ history_before = <<>>
    /\ uploaded_file = NoFile
    /\ chart_type = "Scatter Plot" /\ col1 = "a" /\ col2 = "b"
    /\ pc = "caption"
    /\ exception = "none" /\ messages = {} /\ chart = NoChart
    /\ corr \in CorrValues
    /\ caption = NoCaption /\ insights = <<>> /\ report = NoReport /\ panel = NoPanel

NextCaption == AutoCaption

SpecCaption == InitCaption /\ [][NextCaption]_vars

----------------------------------------------------------------------------
(* Properties *)

Ran == pc = "idle"

\* the run loaded a data frame from the uploaded file
Loaded == Ran /\ uploaded_file.present /\ uploaded_file.ok

\* C1: after any sequence of runs the session history holds at most 5 entries.
C1_HistoryAtMostFive == Len(history) <= 5

\* C1 witness: a run inserted an entry into a history that already held 5.
C1_Witness ==
    /\ Loaded
    /\ Len(history_before) = 5
    /\ Len(history) = 5
    /\ history # history_before

\* C2 (as claimed): after every run that processes an uploaded file, the first
\* entry of the history is the entry of that file, also when the file name was
\* uploaded before.
C2_UploadedFileIsFirst ==
    Loaded => (history # <<>> /\ history[1].filename = uploaded_file.name)

\* C3: for r = k / CorrScale the strength label is "strong" iff |r| > 0.7,
\* "moderate" iff 0.4 < |r| <= 0.7, "weak" iff 0.2 < |r| <= 0.4 and
\* "very weak or no" iff |r| <= 0.2; |r| = 0.7, 0.4, 0.2 fall in the lower class.
C3_StrengthLabel ==
    (Ran /\ caption.shown /\ corr.kind = "num" /\ corr.sxx = CorrScale
         /\ corr.syy = CorrScale) =>
        LET a == 10 * Abs(corr.sxy)
            s == CorrScale
        IN  /\ caption.strength \in {"strong", "moderate", "weak", "very weak or no"}
            /\ (caption.strength = "strong") <=> (a > 7 * s)
            /\ (caption.strength = "moderate") <=> (4 * s < a /\ a <= 7 * s)
            /\ (caption.strength = "weak") <=> (2 * s < a /\ a <= 4 * s)
            /\ (caption.strength = "very weak or no") <=> (a <= 2 * s)

\* C3 witness: a correlation of exactly 0.70 was captioned "moderate".
C3_Witness ==
    /\ Ran /\ caption.shown /\ corr.kind = "num"
    /\ corr.sxx = CorrScale /\ corr.syy = CorrScale
    /\ 10 * corr.sxy = 7 * CorrScale
    /\ caption.strength = "moderate"

\* the correlation of two columns is undefined: fewer than 2 paired numbers,
\* or one of the columns is constant over the paired rows
UndefinedCorrelation(x, y) ==
    LET rows == {i \in 1..Len(x) : x[i].kind = "num" /\ y[i].kind = "num"}
    IN  \/ Cardinality(rows) < 2
        \/ \A i, j \in rows : x[i].v = x[j].v
        \/ \A i, j \in rows : y[i].v = y[j].v

\* C4 (as claimed): when the correlation of the selected columns is undefined,
\* the caption step fails with InsufficientDataError and shows no caption.
C4_UndefinedCorrelationFails ==
    (Loaded /\ chart.kind = "Scatter Plot"
        /\ UndefinedCorrelation(ColumnOf(ReadCsv(uploaded_file), col1).cells,
                                ColumnOf(ReadCsv(uploaded_file), col2).cells)) =>
        (~caption.shown /\ exception = "InsufficientDataError")

IsNumeric(column) ==
    /\ column.cells # <<>>
    /\ \A i \in 1..Len(column.cells) : column.cells[i].kind # "str"

ColumnIndex(df, name) == CHOOSE i \in 1..Len(df) : df[i].name = name

Has(kind, name) ==
    \E k \in 1..Len(insights) : insights[k] = [kind |-> kind, col |-> name]

\* C5: the insight list holds, in column order, for each numeric column a
\* "high average" insight iff mean > 1000 followed by a "high variability"
\* insight iff std > mean (also when the mean is negative); other columns
\* contribute nothing and no column contributes more than these two.
C5_InsightList ==
    Loaded =>
        LET df == ReadCsv(uploaded_file) IN
        /\ \A k \in 1..Len(insights) :
              /\ insights[k].kind \in {"high_average", "high_variability"}
              /\ \E i \in 1..Len(df) : df[i].name = insights[k].col /\ IsNumeric(df[i])
        /\ \A i \in 1..Len(df) :
              IsNumeric(df[i]) =>
                  /\ Has("high_average", df[i].name) <=> MeanGt(df[i].cells, 1000)
                  /\ Has("high_variability", df[i].name) <=> StdGtMean(df[i].cells)
                  /\ (Len(Numbers(df[i].cells)) >= 2 /\ SumSeq(Numbers(df[i].cells)) < 0)
                        => Has("high_variability", df[i].name)
        /\ \A k, l \in 1..Len(insights) :
              k < l =>
                  /\ insights[k] # insights[l]
                  /\ ColumnIndex(df, insights[k].col) <= ColumnIndex(df, insights[l].col)
                  /\ insights[k].col = insights[l].col =>
                        /\ insights[k].kind = "high_average"
                        /\ insights[l].kind = "high_variability"
        /\ (\A i \in 1..Len(df) : ~IsNumeric(df[i])) => insights = <<>>

\* C5 witness: the first column gave both insights, high average first, and a
\* later column gave a further one.
C5_Witness ==
    /\ Loaded
    /\ Len(insights) >= 3
    /\ insights[1] = [kind |-> "high_average", col |-> "a"]
    /\ insights[2] = [kind |-> "high_variability", col |-> "a"]
    /\ insights[3].col = "b"

\* C6 (as claimed): when the uploaded file cannot be parsed, the run ends with
\* a message and without an exception, uses no dataset, and leaves the session
\* history as it was.
C6_ParseFailureReported ==
    (Ran /\ uploaded_file.present /\ ~uploaded_file.ok) =>
        /\ exception = "none"
        /\ messages # {}
        /\ chart = NoChart /\ ~caption.shown /\ insights = <<>> /\ ~report.offered
        /\ history = history_before

\* C7: with fewer than 2 numeric columns the run shows the warning, no chart
\* and no caption, and still builds the insight list and offers the report.
C7_TooFewNumericColumns ==
    LET df == ReadCsv(uploaded_file) IN
    (Loaded /\ Cardinality({i \in 1..Len(df) : IsNumeric(df[i])}) < 2) =>
        /\ "not_enough_numeric_columns" \in messages
        /\ chart.kind = "none"
        /\ ~caption.shown
        /\ \A i \in 1..Len(df) :
              (IsNumeric(df[i]) /\ MeanGt(df[i].cells, 1000))
                  => Has("high_average", df[i].name)
        /\ (insights = <<>>) <=> ("no_strong_insights" \in messages)
        /\ report.offered
        /\ report.insights = insights
        /\ report.columns = Columns(df)

\* C7 witness: a table with exactly one numeric column got the warning and an
\* insight about that column.
C7_Witness ==
    LET df == ReadCsv(uploaded_file) IN
    /\ Loaded
    /\ Cardinality({i \in 1..Len(df) : IsNumeric(df[i])}) = 1
    /\ "not_enough_numeric_columns" \in messages
    /\ insights # <<>>
    /\ report.offered

\* the name without its final ".ext"
RECURSIVE StripExtension(_)
StripExtension(name) ==
    IF name = <<>> THEN <<>>
    ELSE IF name[Len(name)] = "." THEN SubSeq(name, 1, Len(name) - 1)
    ELSE StripExtension(SubSeq(name, 1, Len(name) - 1))

WithoutExtension(name) ==
    IF \E i \in 1..Len(name) : name[i] = "." THEN StripExtension(name) ELSE name

\* C8 (as claimed): the report is named after the uploaded file with only its
\* final extension removed, followed by "_report.txt".
C8_ReportNamedAfterFile ==
    (Loaded /\ report.offered) =>
        report.file_name = WithoutExtension(uploaded_file.name) \o ReportSuffix

\* C9: uploading a name that is not in the history puts the new entry first
\* and keeps the earlier entries in order; only when the history held 5 entries
\* is one removed, and it is the last one.
C9_InsertFrontEvictLast ==
    (Loaded /\ uploaded_file.name \notin Filenames(history_before)) =>
        LET kept == IF Len(history_before) = 5 THEN 4 ELSE Len(history_before) IN
        /\ Len(history) = kept + 1
        /\ history[1] = HistoryEntry(uploaded_file.name, ReadCsv(uploaded_file))
        /\ \A i \in 1..kept : history[i + 1] = history_before[i]

\* C9 witness: a new name was uploaded into a history of 5 entries.
C9_Witness ==
    /\ Loaded
    /\ uploaded_file.name \notin Filenames(history_before)
    /\ Len(history_before) = 5
    /\ history[1].filename = uploaded_file.name

\* C10: the file names in the history are pairwise distinct; a run that uploads
\* a name already in the history, and a run without a file, leave the history
\* as it was.
C10_DistinctAndUnchanged ==
    /\ \A i, j \in 1..Len(history) :
          history[i].filename = history[j].filename => i = j
    /\ (Loaded /\ uploaded_file.name \in Filenames(history_before))
          => history = history_before
    /\ (Ran /\ ~uploaded_file.present) => history = history_before

\* C10 witness: a name of the history was uploaded again with other content
\* than the stored entry describes.
C10_Witness ==
    /\ Loaded
    /\ \E i \in 1..Len(history_before) :
          /\ history_before[i].filename = uploaded_file.name
          /\ history_before[i].shape # Shape(ReadCsv(uploaded_file))
    /\ Len(history) >= 2

====
